---------------------------- MODULE Spec2Model ----------------------------
(***************************************************************************)
(* Model of url_metadata_crawler.py: the date normaliser                   *)
(* (parse_date_to_iso), the date locator (extract_date) and the metadata   *)
(* extractor (extract_metadata_from_url).                                  *)
(*                                                                         *)
(* A Python str is a sequence of one-character strings; Python's None is   *)
(* the distinguished value None.  The regular expressions of the source    *)
(* and those that datetime.strptime builds from a format are written as    *)
(* sequences of nodes and run by one backtracking matcher, Match.          *)
(***************************************************************************)
EXTENDS Integers, Sequences, FiniteSets, TLC

(***************************************************************************)
(* Characters                                                              *)
(***************************************************************************)
None == <<"None">>

Lowers == <<"a","b","c","d","e","f","g","h","i","j","k","l","m",
            "n","o","p","q","r","s","t","u","v","w","x","y","z">>

Uppers == <<"A","B","C","D","E","F","G","H","I","J","K","L","M",
            "N","O","P","Q","R","S","T","U","V","W","X","Y","Z">>

Digit == {"0","1","2","3","4","5","6","7","8","9"}

NonZero == Digit \ {"0"}

Alpha == {Lowers[i] : i \in DOMAIN Lowers} \cup {Uppers[i] : i \in DOMAIN Uppers}

\* \w of Python's re on ASCII text
WordChar == Alpha \cup Digit \cup {"_"}

\* \s of Python's re, and what str.strip() removes
Space == {" ", "\t", "\n"}

\* a literal of a pattern compiled with re.IGNORECASE matches both cases
BothCases(c) ==
    {c} \cup {Uppers[i] : i \in {j \in DOMAIN Lowers : Lowers[j] = c}}
        \cup {Lowers[i] : i \in {j \in DOMAIN Uppers : Uppers[j] = c}}

DigitVal(c) ==
    CASE c = "0" -> 0 [] c = "1" -> 1 [] c = "2" -> 2 [] c = "3" -> 3
      [] c = "4" -> 4 [] c = "5" -> 5 [] c = "6" -> 6 [] c = "7" -> 7
      [] c = "8" -> 8 [] c = "9" -> 9

DigitChar(n) ==
    CASE n = 0 -> "0" [] n = 1 -> "1" [] n = 2 -> "2" [] n = 3 -> "3"
      [] n = 4 -> "4" [] n = 5 -> "5" [] n = 6 -> "6" [] n = 7 -> "7"
      [] n = 8 -> "8" [] n = 9 -> "9"

\* str.strip()
Strip(s) ==
    LET keep == {i \in DOMAIN s : s[i] \notin Space}
        first == CHOOSE i \in keep : \A j \in keep : i <= j
        last == CHOOSE i \in keep : \A j \in keep : j <= i
    IN  IF keep = {} THEN <<>> ELSE SubSeq(s, first, last)

RECURSIVE ToInt(_)
\* int() of a string of digits; int() ignores surrounding white space
ToInt(s) ==
    LET t == Strip(s)
    IN  IF Len(t) = 0 THEN 0
        ELSE 10 * ToInt(SubSeq(t, 1, Len(t) - 1)) + DigitVal(t[Len(t)])

RECURSIVE Decimal(_)
\* str() of a natural number
Decimal(n) ==
    IF n < 10 THEN <<DigitChar(n)>>
    ELSE Append(Decimal(n \div 10), DigitChar(n % 10))

RECURSIVE ZeroPad(_, _)
\* zero fill on the left to the width w
ZeroPad(s, w) == IF Len(s) >= w THEN s ELSE ZeroPad(<<"0">> \o s, w)

(***************************************************************************)
(* Regular expressions.  A pattern is a sequence of nodes:                 *)
(*   Cls(S, lo, hi)   lo to hi characters of the class S, greedy           *)
(*   WordB            \b                                                   *)
(*   Grp(name, alts)  a capturing group (alt1|alt2|...), tried in order    *)
(* Python's matcher backtracks: it takes the first choice at each node     *)
(* and returns to the latest node with a choice left when the rest fails.  *)
(* The match it finds is therefore the first of all the ways to match in   *)
(* the lexicographic order of the choices.  Run lists all the ways in that *)
(* order, each with its end position and the text its groups captured.     *)
(***************************************************************************)
Cls(S, lo, hi) == [t |-> "cls", set |-> S, lo |-> lo, hi |-> hi]

One(S) == Cls(S, 1, 1)

WordB == [t |-> "b"]

Grp(name, alts) == [t |-> "grp", name |-> name, alts |-> alts]

Opt(name, pat) == Grp(name, <<pat, <<>>>>)

NoMatch == [ok |-> FALSE, start |-> 0, end |-> 0, caps |-> <<>>]

IsWordAt(s, p) == p >= 1 /\ p <= Len(s) /\ s[p] \in WordChar

\* \b holds between positions p-1 and p
AtWordBoundary(s, p) == IsWordAt(s, p - 1) # IsWordAt(s, p)

\* how many characters of the class S follow from p, at most hi (a
\* negative hi is no limit, as for + and *)
CountIn(S, s, p, hi) ==
    LET runs == {k \in 0..(Len(s) - p + 1) :
                    (hi < 0 \/ k <= hi) /\ \A i \in 0..(k - 1) : s[p + i] \in S}
    IN  CHOOSE k \in runs : \A j \in runs : j <= k

RECURSIVE Flatten(_)
Flatten(seqs) == IF Len(seqs) = 0 THEN <<>> ELSE Head(seqs) \o Flatten(Tail(seqs))

RECURSIVE Run(_, _, _, _)
RECURSIVE NodeEnds(_, _, _)

\* the ways to match the nodes i.. of pat, continuing each way of ways
Run(pat, i, s, ways) ==
    IF i > Len(pat) \/ Len(ways) = 0 THEN ways
    ELSE Run(pat, i + 1, s,
             Flatten([j \in DOMAIN ways |-> NodeEnds(pat[i], s, ways[j])]))

\* the way w continued by n, n-1, ..., lo characters
Repeated(w, n, lo) ==
    IF n < lo THEN <<>>
    ELSE [k \in 1..(n - lo + 1) |-> [w EXCEPT !.end = w.end + n - k + 1]]

\* the ways inner of a group that starts at from, with what it captured
Captured(name, s, from, inner) ==
    [j \in DOMAIN inner |->
        [inner[j] EXCEPT !.caps = (name :> SubSeq(s, from, inner[j].end - 1)) @@ @]]

\* the ways to match one node from the way w, in the order of preference
NodeEnds(h, s, w) ==
    CASE h.t = "cls" -> Repeated(w, CountIn(h.set, s, w.end, h.hi), h.lo)
      [] h.t = "b" -> IF AtWordBoundary(s, w.end) THEN <<w>> ELSE <<>>
      [] h.t = "grp" ->
           Flatten([i \in DOMAIN h.alts |->
                       Captured(h.name, s, w.end, Run(h.alts[i], 1, s, <<w>>))])

FirstWay(ways, p) ==
    IF Len(ways) = 0 THEN NoMatch
    ELSE [ok |-> TRUE, start |-> p, end |-> ways[1].end, caps |-> ways[1].caps]

\* pattern.match(s, p - 1): the match Python finds from the position p
Match(pat, s, p) == FirstWay(Run(pat, 1, s, <<[end |-> p, caps |-> <<>>]>>), p)

\* of the matches from every position, the one from the leftmost position
Leftmost(matches) ==
    LET starts == {p \in DOMAIN matches : matches[p].ok}
    IN  IF starts = {} THEN NoMatch
        ELSE matches[CHOOSE p \in starts : \A q \in starts : p <= q]

\* re.search(pat, s): the leftmost match
Search(pat, s) == Leftmost([p \in 1..(Len(s) + 1) |-> Match(pat, s, p)])

\* match.group()
MatchText(s, m) == SubSeq(s, m.start, m.end - 1)

(***************************************************************************)
(* datetime.strptime and datetime.strftime, as parse_date_to_iso uses them *)
(***************************************************************************)
Lit(word) == [i \in DOMAIN word |-> One(BothCases(word[i]))]

\* the month names of the C locale, as _strptime.LocaleTime lists them
MonthAbbr ==
    << <<"j","a","n">>, <<"f","e","b">>, <<"m","a","r">>, <<"a","p","r">>,
       <<"m","a","y">>, <<"j","u","n">>, <<"j","u","l">>, <<"a","u","g">>,
       <<"s","e","p">>, <<"o","c","t">>, <<"n","o","v">>, <<"d","e","c">> >>

MonthFull ==
    << <<"j","a","n","u","a","r","y">>, <<"f","e","b","r","u","a","r","y">>,
       <<"m","a","r","c","h">>, <<"a","p","r","i","l">>, <<"m","a","y">>,
       <<"j","u","n","e">>, <<"j","u","l","y">>, <<"a","u","g","u","s","t">>,
       <<"s","e","p","t","e","m","b","e","r">>, <<"o","c","t","o","b","e","r">>,
       <<"n","o","v","e","m","b","e","r">>, <<"d","e","c","e","m","b","e","r">> >>

\* _strptime.TimeRE orders the alternatives of %B by length, longest first
MonthFullOrder == <<9, 2, 11, 12, 1, 10, 8, 3, 4, 6, 7, 5>>

\* the regular expression _strptime.TimeRE holds for a directive
Directive(tok) ==
    CASE tok = "%d" -> Grp("d", << <<One({"3"}), One({"0","1"})>>,
                                   <<One({"1","2"}), One(Digit)>>,
                                   <<One({"0"}), One(NonZero)>>,
                                   <<One(NonZero)>>,
                                   <<One({" "}), One(NonZero)>> >>)
      [] tok = "%m" -> Grp("m", << <<One({"1"}), One({"0","1","2"})>>,
                                   <<One({"0"}), One(NonZero)>>,
                                   <<One(NonZero)>> >>)
      [] tok = "%Y" -> Grp("Y", << <<Cls(Digit, 4, 4)>> >>)
      [] tok = "%y" -> Grp("y", << <<Cls(Digit, 2, 2)>> >>)
      [] tok = "%H" -> Grp("H", << <<One({"2"}), One({"0","1","2","3"})>>,
                                   <<One({"0","1"}), One(Digit)>>,
                                   <<One(Digit)>> >>)
      [] tok = "%M" -> Grp("M", << <<One({"0","1","2","3","4","5"}), One(Digit)>>,
                                   <<One(Digit)>> >>)
      [] tok = "%S" -> Grp("S", << <<One({"6"}), One({"0","1"})>>,
                                   <<One({"0","1","2","3","4","5"}), One(Digit)>>,
                                   <<One(Digit)>> >>)
      [] tok = "%z" ->
           Grp("z", << <<One({"+","-"}), Cls(Digit, 2, 2), Cls({":"}, 0, 1),
                         One({"0","1","2","3","4","5"}), One(Digit),
                         Opt("zs", <<Cls({":"}, 0, 1),
                                     One({"0","1","2","3","4","5"}), One(Digit),
                                     Opt("zf", <<One({"."}), Cls(Digit, 1, 6)>>)>>)>>,
                       <<One({"Z"})>> >>)
      [] tok = "%b" -> Grp("b", [i \in DOMAIN MonthAbbr |-> Lit(MonthAbbr[i])])
      [] tok = "%B" ->
           Grp("B", [i \in DOMAIN MonthFullOrder |-> Lit(MonthFull[MonthFullOrder[i]])])

IsDirective(tok) == tok \in {"%d","%m","%Y","%y","%H","%M","%S","%z","%b","%B"}

\* TimeRE.pattern(format): directives become groups, white space becomes
\* \s+, any other character stands for itself
Pattern(format) ==
    [i \in DOMAIN format |->
        IF IsDirective(format[i]) THEN Directive(format[i])
        ELSE IF format[i] \in Space THEN Cls(Space, 1, -1)
        ELSE One(BothCases(format[i]))]

LowerSeq(s) ==
    [i \in DOMAIN s |->
        LET up == {j \in DOMAIN Uppers : Uppers[j] = s[i]}
        IN  IF up = {} THEN s[i] ELSE Lowers[CHOOSE j \in up : TRUE]]

MonthIndex(names, word) == CHOOSE i \in DOMAIN names : names[i] = LowerSeq(word)

IsLeap(y) == y % 4 = 0 /\ (y % 100 # 0 \/ y % 400 = 0)

DaysInMonth(y, m) ==
    IF m = 2 THEN (IF IsLeap(y) THEN 29 ELSE 28)
    ELSE IF m \in {4, 6, 9, 11} THEN 30 ELSE 31

\* what the constructors datetime.date and datetime.datetime accept
ValidDate(y, m, d) ==
    y >= 1 /\ y <= 9999 /\ m >= 1 /\ m <= 12 /\ d >= 1 /\ d <= DaysInMonth(y, m)

\* the %z branch of _strptime: a colon after the hours must be matched by
\* one before the seconds, and the offset must be less than a day
ValidOffset(z) ==
    \/ z = <<"Z">>
    \/ /\ ToInt(SubSeq(z, 2, 3)) < 24
       /\ IF z[4] = ":"
          THEN Len(z) <= 6 \/ z[7] = ":"
          ELSE Len(z) <= 5 \/ z[6] # ":"

NoDate == [ok |-> FALSE, y |-> 0, m |-> 0, d |-> 0]

\* %y: 00..68 are years of the 2000s, 69..99 years of the 1900s
Century(yy) == IF yy <= 68 THEN yy + 2000 ELSE yy + 1900

YearOf(caps) ==
    IF "Y" \in DOMAIN caps THEN ToInt(caps["Y"]) ELSE Century(ToInt(caps["y"]))

MonthOf(caps) ==
    IF "m" \in DOMAIN caps THEN ToInt(caps["m"])
    ELSE IF "b" \in DOMAIN caps THEN MonthIndex(MonthAbbr, caps["b"])
    ELSE MonthIndex(MonthFull, caps["B"])

\* the datetime of the parsed fields, where its constructor accepts them
DateOf(y, m, d, caps) ==
    IF /\ ValidDate(y, m, d)
       /\ "S" \in DOMAIN caps => ToInt(caps["S"]) <= 59
       /\ "z" \in DOMAIN caps => ValidOffset(caps["z"])
    THEN [ok |-> TRUE, y |-> y, m |-> m, d |-> d]
    ELSE NoDate

\* the match must end where the string of length n ends
Converted(res, n) ==
    IF ~res.ok \/ res.end # n + 1 THEN NoDate
    ELSE DateOf(YearOf(res.caps), MonthOf(res.caps), ToInt(res.caps["d"]), res.caps)

\* datetime.strptime(s, format): ok is FALSE where Python raises ValueError
Strptime(s, format) == Converted(Match(Pattern(format), s, 1), Len(s))

\* dt.strftime("%Y-%m-%d").  The C library formats %Y: glibc writes the
\* year without padding, other libraries pad it to four digits.
Strftime(dt, pads_year) ==
    (IF pads_year THEN ZeroPad(Decimal(dt.y), 4) ELSE Decimal(dt.y))
        \o <<"-">> \o ZeroPad(Decimal(dt.m), 2)
        \o <<"-">> \o ZeroPad(Decimal(dt.d), 2)

(***************************************************************************)
(* parse_date_to_iso                                                       *)
(***************************************************************************)
\* the patterns with the European numeric order tried before the US order
patterns_eu_first ==
    << <<"%Y","-","%m","-","%d">>,
       <<"%Y","-","%m","-","%d","T","%H",":","%M",":","%S","%z">>,
       <<"%Y","-","%m","-","%d","T","%H",":","%M",":","%S">>,
       <<"%b"," ","%d",","," ","%Y">>,
       <<"%B"," ","%d",","," ","%Y">>,
       <<"%d","/","%m","/","%Y">>,
       <<"%m","/","%d","/","%Y">>,
       <<"%Y","/","%m","/","%d">>,
       <<"%d","-","%b","-","%y">>,
       <<"%d","-","%B","-","%Y">> >>

\* the pattern groups, flattened in the order the two loops visit them
patterns ==
    << <<"%Y","-","%m","-","%d">>,
       <<"%Y","-","%m","-","%d","T","%H",":","%M",":","%S","%z">>,
       <<"%Y","-","%m","-","%d","T","%H",":","%M",":","%S">>,
       <<"%b"," ","%d",","," ","%Y">>,
       <<"%B"," ","%d",","," ","%Y">>,
       <<"%m","/","%d","/","%Y">>,
       <<"%d","/","%m","/","%Y">>,
       <<"%Y","/","%m","/","%d">>,
       <<"%d","-","%b","-","%y">>,
       <<"%d","-","%B","-","%Y">> >>

OrElseDate(dt, rest) == IF dt.ok THEN dt ELSE rest

RECURSIVE FirstTemplate(_, _)
\* the first pattern from the i-th on that strptime accepts, or NoDate
FirstTemplate(s, i) ==
    IF i > Len(patterns) THEN NoDate
    ELSE OrElseDate(Strptime(Strip(s), patterns[i]), FirstTemplate(s, i + 1))

\* r"(\d{4})[\/\-](\d{2})[\/\-](\d{2})"
ymd_regex ==
    << Grp("1", << <<Cls(Digit, 4, 4)>> >>), One({"/","-"}),
       Grp("2", << <<Cls(Digit, 2, 2)>> >>), One({"/","-"}),
       Grp("3", << <<Cls(Digit, 2, 2)>> >>) >>

\* r"(\d{4})"
year_regex == << Grp("1", << <<Cls(Digit, 4, 4)>> >>) >>

\* f"{ymd_match.group(1)}-{ymd_match.group(2)}-{ymd_match.group(3)}"
JoinYmd(caps) == caps["1"] \o <<"-">> \o caps["2"] \o <<"-">> \o caps["3"]

\* the three stages in order: template, year-month-day triple, bare year
Cascade(dt, ymd_match, year_match, pads_year) ==
    IF dt.ok THEN Strftime(dt, pads_year)
    ELSE IF ymd_match.ok THEN JoinYmd(ymd_match.caps)
    ELSE IF year_match.ok THEN year_match.caps["1"] \o <<"-","0","1","-","0","1">>
    ELSE None

\* parse_date_to_iso without its final fallback to a bare year
parse_date_to_iso_no_year_fallback(date_str, pads_year) ==
    IF date_str = None \/ Len(date_str) = 0 THEN None
    ELSE Cascade(FirstTemplate(date_str, 1), Search(ymd_regex, date_str),
                 NoMatch, pads_year)

parse_date_to_iso(date_str, pads_year) ==
    IF date_str = None \/ Len(date_str) = 0 THEN None
    ELSE Cascade(FirstTemplate(date_str, 1), Search(ymd_regex, date_str),
                 Search(year_regex, date_str), pads_year)

(***************************************************************************)
(* extract_date                                                            *)
(***************************************************************************)
\* what soup.find returns: no element, or the element with the value of
\* the attribute the caller reads from it (None when it lacks the attribute)
NoTag == [found |-> FALSE, attr |-> None]

Tag(value) == [found |-> TRUE, attr |-> value]

\* an element found by its class, with its get_text()
NoElement == [found |-> FALSE, text |-> <<>>]

Element(text) == [found |-> TRUE, text |-> text]

\* Python's truth value of a str | None
Truthy(x) == x # None /\ Len(x) > 0

Letters39 == Cls(Alpha, 3, 9)

date_patterns ==
    << \* r"\b\d{4}-\d{2}-\d{2}\b"
       <<WordB, Cls(Digit, 4, 4), One({"-"}), Cls(Digit, 2, 2), One({"-"}),
         Cls(Digit, 2, 2), WordB>>,
       \* r"\b[A-Za-z]{3,9} \d{1,2},? \d{4}\b"
       <<WordB, Letters39, One({" "}), Cls(Digit, 1, 2), Cls({","}, 0, 1),
         One({" "}), Cls(Digit, 4, 4), WordB>>,
       \* r"\b\d{1,2} [A-Za-z]{3,9} \d{4}\b"
       <<WordB, Cls(Digit, 1, 2), One({" "}), Letters39, One({" "}),
         Cls(Digit, 4, 4), WordB>>,
       \* r"\b\d{1,2}[/\-]\d{1,2}[/\-]\d{2,4}\b"
       <<WordB, Cls(Digit, 1, 2), One({"/","-"}), Cls(Digit, 1, 2),
         One({"/","-"}), Cls(Digit, 2, 4), WordB>> >>

\* the candidate the i-th structured source gives, None when the element is
\* missing or its attribute is missing or empty
date_sources(soup) == <<soup.modified_time, soup.published_time, soup.time>>

SourceDate(element, pads_year) ==
    IF element.found /\ Truthy(element.attr)
    THEN parse_date_to_iso(element.attr, pads_year)
    ELSE None

\* soup.find("div", class_="post-header") or soup.find(class_="article-header")
PostHeader(soup) ==
    IF soup.post_header.found THEN soup.post_header ELSE soup.article_header

OrElse(iso_date, rest) == IF iso_date # None THEN iso_date ELSE rest

NormalisedMatch(text, match, pads_year) ==
    IF match.ok THEN parse_date_to_iso(MatchText(text, match), pads_year) ELSE None

\* the date the i-th text pattern gives on the header text, or None
TextDate(text, i, pads_year) ==
    NormalisedMatch(text, Search(date_patterns[i], text), pads_year)

RECURSIVE FirstTextDate(_, _, _)
FirstTextDate(text, i, pads_year) ==
    IF i > Len(date_patterns) THEN None
    ELSE OrElse(TextDate(text, i, pads_year), FirstTextDate(text, i + 1, pads_year))

RECURSIVE FirstSourceDate(_, _, _)
FirstSourceDate(sources, i, pads_year) ==
    IF i > Len(sources) THEN None
    ELSE OrElse(SourceDate(sources[i], pads_year),
                FirstSourceDate(sources, i + 1, pads_year))

\* the fallback to the text of the header element
HeaderDate(post_header, pads_year) ==
    IF post_header.found THEN FirstTextDate(post_header.text, 1, pads_year)
    ELSE None

RECURSIVE FirstPresentDate(_, _, _)
FirstPresentDate(sources, i, pads_year) ==
    IF i > Len(sources) THEN None
    ELSE IF sources[i].found /\ Truthy(sources[i].attr)
         THEN parse_date_to_iso(sources[i].attr, pads_year)
         ELSE FirstPresentDate(sources, i + 1, pads_year)

\* extract_date returning at the first element that is present, whether or
\* not its value normalises
extract_date_first_present(soup, pads_year) ==
    IF \E i \in 1..3 : date_sources(soup)[i].found /\ Truthy(date_sources(soup)[i].attr)
    THEN FirstPresentDate(date_sources(soup), 1, pads_year)
    ELSE HeaderDate(PostHeader(soup), pads_year)

extract_date(soup, pads_year) ==
    OrElse(FirstSourceDate(date_sources(soup), 1, pads_year),
           HeaderDate(PostHeader(soup), pads_year))

(***************************************************************************)
(* extract_metadata_from_url                                               *)
(***************************************************************************)
\* the record of the except branch
ErrorRecord(url, e) ==
    [url |-> url, og_title |-> None, author |-> None, article_date |-> None,
     error |-> e]

\* the first of the three author elements that exists
author_meta(soup) ==
    IF soup.author_name.found THEN soup.author_name
    ELSE IF soup.article_author.found THEN soup.article_author
    ELSE soup.og_author

\* extract_metadata_from_url whose except branch keeps the fields that the
\* page would have given
extract_metadata_keeps_fields(url, response, pads_year) ==
    IF response.raises # "" THEN ErrorRecord(url, response.raises)
    ELSE LET soup == response.soup
             meta == author_meta(soup)
             record == [url |-> url,
                        og_title |-> IF soup.og_title.found THEN soup.og_title.attr
                                     ELSE None,
                        author |-> IF meta.found THEN meta.attr ELSE None,
                        article_date |-> extract_date(soup, pads_year)]
         IN  IF soup.og_title.found /\ soup.og_title.attr = None
             THEN ("error" :> "'content'") @@ record
             ELSE record

\* response is what requests.get and raise_for_status give: the exception
\* they raise, or the page
extract_metadata_from_url(url, response, pads_year) ==
    IF response.raises # "" THEN ErrorRecord(url, response.raises)
    ELSE LET soup == response.soup
             meta == author_meta(soup)
         IN  \* og_title["content"] raises KeyError without the attribute
             IF soup.og_title.found /\ soup.og_title.attr = None
             THEN ErrorRecord(url, "'content'")
             ELSE [url |-> url,
                   og_title |-> IF soup.og_title.found THEN soup.og_title.attr
                                ELSE None,
                   author |-> IF meta.found THEN meta.attr ELSE None,
                   article_date |-> extract_date(soup, pads_year)]

(***************************************************************************)
(* Inputs                                                                  *)
(***************************************************************************)
\* the longest run of digits in the generated free text
MaxRun == 6

Years == { <<"0","0","0","0">>,
          <<"0","9","9","9">>,
          <<"2","0","2","4">>,
          <<"2","0","2","5">> }

TwoDigits == { <<"0","0">>, <<"0","1">>, <<"0","2">>, <<"0","3">>, <<"0","4">>, <<"1","2">>, <<"1","3">>, <<"2","9">>, <<"3","0">>, <<"3","1">>, <<"3","2">> }

Months2 == { <<"0","0">>, <<"0","1">>, <<"0","2">>, <<"1","2">>, <<"1","3">> }

Days2 == { <<"0","0">>, <<"0","1">>, <<"2","9">>, <<"3","0">>, <<"3","1">>, <<"3","2">> }

Seps == {"-", "/"}

\* year, month, day with every mix of the two separators
YmdInputs ==
    {y \o <<a>> \o m \o <<b>> \o d :
        y \in Years, a \in Seps, m \in Months2, b \in Seps, d \in Days2}

\* AA/BB/YYYY
SlashInputs ==
    {a \o <<"/">> \o b \o <<"/">> \o y : a \in TwoDigits, b \in TwoDigits, y \in Years}

DigitsA == <<"2","0","1","9","0","7","3","1">>

DigitsB == <<"1","9","8","7","6","5","4","3">>

RunOf(src, k) == [i \in 1..k |-> src[((i - 1) % Len(src)) + 1]]

\* free text with up to two runs of digits of every length up to MaxRun
TextInputs ==
    {pre \o RunOf(DigitsA, j) \o mid \o RunOf(DigitsB, k) \o post :
        pre \in {<<>>, <<"i","n"," ">>}, j \in 0..MaxRun, mid \in {<<" ">>, <<"a">>},
        k \in 0..MaxRun, post \in {<<>>, <<"!">>}}

NamedInputs ==
    { <<"2","0","2","5","-","0","2","-","1","5">>,
      <<"F","e","b"," ","1","5",","," ","2","0","2","5">>,
      <<"F","e","b","r","u","a","r","y"," ","1","5",","," ","2","0","2","5">>,
      <<"1","5","-","F","e","b","-","2","5">>,
      <<"1","5","-","F","e","b","-","6","9">>,
      <<"1","5","-","F","e","b","r","u","a","r","y","-","2","0","2","5">>,
      <<"P","u","b","l","i","s","h","e","d"," ","s","o","m","e","t","i","m","e"," ","i","n"," ","2","0","1","9",","," ","d","e","t","a","i","l","s"," ","T","B","D">>,
      <<"n","o"," ","d","a","t","e"," ","i","n","f","o">>,
      <<" ">>,
      <<" "," ","2","0","2","5","-","0","2","-","1","5"," ","\n">>,
      <<"x","2","0","2","5","-","1","3","-","4","5">>,
      <<"p","o","s","t","e","d"," ","2","0","2","5","/","0","2","-","1","5",".">>,
      <<"5"," ","M","a","r","c","h"," ","2","0","2","4">>,
      <<"M","a","r","c","h"," ","5",","," ","2","0","2","4">>,
      <<"m","a","y"," ","5",","," ","2","0","2","5">>,
      <<"F","e","b"," "," ","5",","," ","2","0","2","5">>,
      <<"2","0","2","5","-","2","-","5">>,
      <<"2","0","2","5","-","0","2","-"," ","5">>,
      <<"1","/","2","/","2","0","2","5">>,
      <<"3","/","4","/","0","9","9","9">>,
      <<"2","0","2","5","-","0","2","-","1","5","T","1","0",":","0","0",":","0","0">>,
      <<"2","0","2","5","-","0","2","-","1","5","t","1","0",":","0","0",":","0","0","z">>,
      <<"2","0","2","5","-","0","2","-","1","5","T","1","0",":","0","0",":","0","0","Z">>,
      <<"2","0","2","5","-","0","2","-","1","5","T","1","0",":","0","0",":","0","0","+","0","5",":","3","0">>,
      <<"2","0","2","5","-","0","2","-","1","5","T","1","0",":","0","0",":","0","0","+","0","5","3","0">>,
      <<"2","0","2","5","-","0","2","-","1","5","T","1","0",":","0","0",":","6","0">>,
      <<"2","0","2","5","-","0","2","-","1","5","T","1","0",":","0","0",":","0","0","+","2","4","0","0">>,
      <<"2","0","2","5","-","0","2","-","1","5","T","1","0",":","0","0",":","0","0","+","0","5",":","3","0","4","5">>,
      <<"2","0","2","5","-","0","2","-","1","5","T","1","0",":","0","0",":","0","0","+","0","5",":","3","0",":","4","5",".","5">>,
      <<"2","0","2","5","-","0","2","-","3","0","T","1","0",":","0","0",":","0","0">>,
      <<"0","9","9","9","-","0","2","-","1","5","T","1","0",":","0","0",":","0","0">>,
      <<"F","e","b"," ","1","5",","," ","0","9","9","9">>,
      <<"1","5","-","F","e","b","r","u","a","r","y","-","0","9","9","9">>,
      <<"2","9","-","F","e","b","-","2","4">>,
      <<"2","9","-","F","e","b","-","2","3">> }

DateStrings ==
    {None, <<>>} \cup YmdInputs \cup SlashInputs \cup TextInputs \cup NamedInputs

\* attribute values of the date elements
DateAttrs ==
    { <<"y","e","s","t","e","r","d","a","y">>,
      <<"2","0","2","5","-","0","2","-","1","5">>,
      <<"c","i","r","c","a"," ","2","0","1","9">> }

HeaderTexts ==
    { <<"U","p","d","a","t","e","d",":"," ","5"," ","M","a","r","c","h"," ","2","0","2","4">>,
      <<"B","y"," ","A","n","n",","," ","M","a","r","c","h"," ","5",","," ","2","0","2","4"," ","a","t"," ","n","o","o","n">>,
      <<"p","o","s","t","e","d"," ","2","0","2","4","-","0","3","-","0","5",".">>,
      <<"o","n"," ","3","/","4","/","2","0","2","5"," ","b","y"," ","B","o">>,
      <<"s","e","e","n"," ","1","2","-","0","5","-","2","0","2","4">>,
      <<"n","o"," ","d","a","t","e"," ","h","e","r","e">> }

MetaTags(values) == {NoTag, Tag(None)} \cup {Tag(v) : v \in values}

Elements(texts) == {NoElement} \cup {Element(t) : t \in texts}

NoSoup ==
    [modified_time |-> NoTag, published_time |-> NoTag, time |-> NoTag,
     post_header |-> NoElement, article_header |-> NoElement,
     og_title |-> NoTag, author_name |-> NoTag, article_author |-> NoTag,
     og_author |-> NoTag]

\* pages that differ in where they carry a date
DateSoups ==
    {[NoSoup EXCEPT !.modified_time = m, !.published_time = p, !.time = t,
                    !.post_header = h, !.article_header = a] :
        m \in MetaTags(DateAttrs), p \in MetaTags(DateAttrs),
        t \in {NoTag, Tag(<<>>), Tag(<<"n","o">>),
                Tag(<<"2","0","2","4","-","0","3","-","0","5","T","1","0",":","0","0",":","0","0","+","0","5",":","3","0">>)},
        h \in Elements(HeaderTexts),
        a \in Elements({<<"M","a","y"," ","1","2",","," ","2","0","2","4">>})}

Title == <<"T">>

\* pages that differ in their title and author elements
MetaSoups ==
    {[NoSoup EXCEPT !.og_title = t, !.author_name = a, !.article_author = b,
                    !.og_author = c, !.published_time = p, !.post_header = h] :
        t \in MetaTags({Title}),
        a \in MetaTags({<<"A">>}), b \in MetaTags({<<"B">>}),
        c \in MetaTags({<<"C">>}),
        p \in {NoTag, Tag(<<"2","0","2","5","-","0","2","-","1","5">>)},
        h \in {NoElement, Element(<<"5"," ","M","a","y"," ","2","0","2","4">>)}}

\* requests.get raising (a timeout), raise_for_status raising (a non-2xx
\* status), or the page
Responses ==
    {[raises |-> e, soup |-> NoSoup] : e \in {"ReadTimeout", "404 Client Error"}}
        \cup {[raises |-> "", soup |-> soup] : soup \in MetaSoups}

Urls == {"https://example.org/a"}

(***************************************************************************)
(* The state machine: one call of one of the three functions               *)
(***************************************************************************)
\* call      the function that is called
\* returned  whether it has returned
\* pads_year whether the C library behind strftime pads %Y to four digits
\* date_str, soup, url, response   the arguments and what the fetch gave
\* ret       the value returned
VARIABLES call, returned, pads_year, date_str, soup, url, response, ret

vars == <<call, returned, pads_year, date_str, soup, url, response, ret>>

NoResponse == [raises |-> "", soup |-> NoSoup]

Init ==
    /\ returned = FALSE
    /\ ret = None
    /\ pads_year \in BOOLEAN
    /\ \/ /\ call = "parse_date_to_iso"
          /\ date_str \in DateStrings
          /\ soup = NoSoup /\ url = "" /\ response = NoResponse
       \/ /\ call = "extract_date"
          /\ soup \in DateSoups
          /\ date_str = None /\ url = "" /\ response = NoResponse
       \/ /\ call = "extract_metadata_from_url"
          /\ url \in Urls
          /\ response \in Responses
          /\ date_str = None /\ soup = NoSoup

ParseDateToIso ==
    /\ call = "parse_date_to_iso" /\ ~returned
    /\ ret' = parse_date_to_iso(date_str, pads_year)
    /\ returned' = TRUE
    /\ UNCHANGED <<call, pads_year, date_str, soup, url, response>>

ExtractDate ==
    /\ call = "extract_date" /\ ~returned
    /\ ret' = extract_date(soup, pads_year)
    /\ returned' = TRUE
    /\ UNCHANGED <<call, pads_year, date_str, soup, url, response>>

ExtractMetadataFromUrl ==
    /\ call = "extract_metadata_from_url" /\ ~returned
    /\ ret' = extract_metadata_from_url(url, response, pads_year)
    /\ returned' = TRUE
    /\ UNCHANGED <<call, pads_year, date_str, soup, url, response>>

Next == ParseDateToIso \/ ExtractDate \/ ExtractMetadataFromUrl

Spec == Init /\ [][Next]_vars

(***************************************************************************)
(* Properties                                                              *)
(***************************************************************************)
ParseDone == call = "parse_date_to_iso" /\ returned

LocateDone == call = "extract_date" /\ returned

ExtractDone == call = "extract_metadata_from_url" /\ returned

IsDigits(s) == \A i \in DOMAIN s : s[i] \in Digit

\* some template of the cascade accepts the trimmed string
TemplateMatches(s) == \E i \in DOMAIN patterns : Strptime(Strip(s), patterns[i]).ok

\* four digits, a separator, two digits, a separator, two digits from p
YmdAt(s, p) ==
    /\ p >= 1 /\ p + 9 <= Len(s)
    /\ IsDigits(SubSeq(s, p, p + 3)) /\ s[p + 4] \in {"/", "-"}
    /\ IsDigits(SubSeq(s, p + 5, p + 6)) /\ s[p + 7] \in {"/", "-"}
    /\ IsDigits(SubSeq(s, p + 8, p + 9))

HasYmdTriple(s) == \E p \in DOMAIN s : YmdAt(s, p)

\* four consecutive digits from p
FourDigitsAt(s, p) == p >= 1 /\ p + 3 <= Len(s) /\ IsDigits(SubSeq(s, p, p + 3))

HasFourDigits(s) == \E p \in DOMAIN s : FourDigitsAt(s, p)

\* the positions where a run of exactly four digits starts
ExactRuns(s) ==
    {p \in DOMAIN s : /\ FourDigitsAt(s, p)
                      /\ (p = 1 \/ s[p - 1] \notin Digit)
                      /\ (p + 4 > Len(s) \/ s[p + 4] \notin Digit)}

\* digits, "-", two digits, "-", two digits
IsDateShaped(r) ==
    /\ Len(r) >= 7
    /\ IsDigits(SubSeq(r, 1, Len(r) - 6)) /\ r[Len(r) - 5] = "-"
    /\ IsDigits(SubSeq(r, Len(r) - 4, Len(r) - 3)) /\ r[Len(r) - 2] = "-"
    /\ IsDigits(SubSeq(r, Len(r) - 1, Len(r)))

\* the year, month and day a date-shaped string denotes
DateValue(r) ==
    <<ToInt(SubSeq(r, 1, Len(r) - 6)), ToInt(SubSeq(r, Len(r) - 4, Len(r) - 3)),
      ToInt(SubSeq(r, Len(r) - 1, Len(r)))>>

\* a year-month-day string with a month in 1..12 and a day of that month
IsCanonicalDate(r) ==
    /\ IsDateShaped(r)
    /\ DateValue(r)[2] \in 1..12
    /\ DateValue(r)[3] \in 1..DaysInMonth(DateValue(r)[1], DateValue(r)[2])

\* the candidate strings of a page in the order of the sources: the three
\* attributes, then what each text pattern finds in the header
Candidates(page) ==
    [i \in 1..7 |->
        IF i <= 3
        THEN (IF date_sources(page)[i].found THEN date_sources(page)[i].attr ELSE None)
        ELSE IF PostHeader(page).found
                  /\ Search(date_patterns[i - 3], PostHeader(page).text).ok
             THEN MatchText(PostHeader(page).text,
                            Search(date_patterns[i - 3], PostHeader(page).text))
             ELSE None]

Normalised(c) == IF c = None THEN None ELSE parse_date_to_iso(c, pads_year)

\* C1: extract_date returns the normalised date of the first source, in the
\* order modified time, published time, time element, header text, whose
\* candidate normalises, and None when no candidate does; an unparseable
\* modified time with a parseable published time gives the published date.
C1_FirstAcceptedSource ==
    LocateDone =>
        LET cands == Candidates(soup)
            accepted == {i \in DOMAIN cands : Normalised(cands[i]) # None}
            first == CHOOSE i \in accepted : \A j \in accepted : i <= j
        IN  /\ ret = IF accepted = {} THEN None ELSE Normalised(cands[first])
            /\ (/\ soup.modified_time.found
                /\ Normalised(soup.modified_time.attr) = None
                /\ soup.published_time.found
                /\ Normalised(soup.published_time.attr) # None)
               => ret = Normalised(soup.published_time.attr)

C1_Witness ==
    /\ LocateDone
    /\ soup.modified_time = Tag(<<"y","e","s","t","e","r","d","a","y">>)
    /\ soup.published_time = Tag(<<"2","0","2","5","-","0","2","-","1","5">>)
    /\ ret = <<"2","0","2","5","-","0","2","-","1","5">>

\* D[D] Month YYYY with its parts captured
day_first ==
    <<WordB, Grp("d", << <<Cls(Digit, 1, 2)>> >>), One({" "}),
      Grp("month", << <<Letters39>> >>), One({" "}),
      Grp("y", << <<Cls(Digit, 4, 4)>> >>), WordB>>

MonthNumber(word) ==
    IF \E i \in DOMAIN MonthFull : MonthFull[i] = LowerSeq(word)
    THEN MonthIndex(MonthFull, word)
    ELSE IF \E i \in DOMAIN MonthAbbr : MonthAbbr[i] = LowerSeq(word)
    THEN MonthIndex(MonthAbbr, word)
    ELSE 0

\* C2: for a page with no date meta tag and no time element whose header
\* text has a day-first date D[D] Month YYYY (and no ISO or month-first
\* date before it in the pattern order), extract_date returns that date
\* with its real month and day, as for "Updated: 5 March 2024" 2024-03-05.
C2_DayFirstTextDate ==
    (/\ LocateDone
     /\ ~soup.modified_time.found /\ ~soup.published_time.found /\ ~soup.time.found
     /\ PostHeader(soup).found
     /\ ~Search(date_patterns[1], PostHeader(soup).text).ok
     /\ ~Search(date_patterns[2], PostHeader(soup).text).ok
     /\ Search(day_first, PostHeader(soup).text).ok
     /\ MonthNumber(Search(day_first, PostHeader(soup).text).caps["month"]) # 0)
    => LET caps == Search(day_first, PostHeader(soup).text).caps
       IN  ret = caps["y"] \o <<"-">> \o ZeroPad(Decimal(MonthNumber(caps["month"])), 2)
                     \o <<"-">> \o ZeroPad(caps["d"], 2)

\* C3: every result of parse_date_to_iso other than None is a
\* year-month-day string with a month in 1..12 and a day that exists in
\* that month of that year.
C3_CanonicalDate == (ParseDone /\ ret # None) => IsCanonicalDate(ret)

\* C4: for every page that was fetched and parsed, the record that
\* extract_metadata_from_url returns has no error field.
C4_NoErrorForParsedPage ==
    (ExtractDone /\ response.raises = "") => "error" \notin DOMAIN ret

\* the content of the first author element that has one
FirstAuthorValue(page) ==
    IF page.author_name.found /\ page.author_name.attr # None
    THEN page.author_name.attr
    ELSE IF page.article_author.found /\ page.article_author.attr # None
    THEN page.article_author.attr
    ELSE IF page.og_author.found /\ page.og_author.attr # None
    THEN page.og_author.attr
    ELSE None

\* C5: the author of a record without error is the content of the first of
\* meta name=author, article:author, og:author that has a content value,
\* also when an earlier element exists without one; None when none has.
C5_FirstAuthorValue ==
    (ExtractDone /\ "error" \notin DOMAIN ret)
    => ret.author = FirstAuthorValue(response.soup)

\* C6: when no template and no year-month-day triple matches, the result is
\* the year of a run of exactly four digits with -01-01, and None when the
\* input has no run of exactly four digits.
C6_YearFromExactRun ==
    (/\ ParseDone /\ Truthy(date_str)
     /\ ~TemplateMatches(date_str) /\ ~HasYmdTriple(date_str))
    => IF ExactRuns(date_str) = {} THEN ret = None
       ELSE \E p \in ExactRuns(date_str) :
               ret = SubSeq(date_str, p, p + 3) \o <<"-","0","1","-","0","1">>

\* two digits, "/", two digits, "/", four digits
IsSlashDate(s) ==
    /\ s # None /\ Len(s) = 10
    /\ IsDigits(SubSeq(s, 1, 2)) /\ s[3] = "/"
    /\ IsDigits(SubSeq(s, 4, 5)) /\ s[6] = "/"
    /\ IsDigits(SubSeq(s, 7, 10))

\* C7: for AA/BB/YYYY, when month AA day BB and day AA month BB are both
\* dates, the result is the date with month AA and day BB; the result is
\* the date with day AA and month BB only when month AA day BB is no date.
C7_UsOrderFirst ==
    (ParseDone /\ IsSlashDate(date_str)) =>
        LET aa == ToInt(SubSeq(date_str, 1, 2))
            bb == ToInt(SubSeq(date_str, 4, 5))
            yyyy == ToInt(SubSeq(date_str, 7, 10))
        IN  /\ ret # None /\ IsDateShaped(ret)
            /\ (ValidDate(yyyy, aa, bb) /\ ValidDate(yyyy, bb, aa))
               => DateValue(ret) = <<yyyy, aa, bb>>
            /\ (DateValue(ret) = <<yyyy, bb, aa>> /\ aa # bb)
               => ~ValidDate(yyyy, aa, bb)

C7_Witness ==
    /\ ParseDone
    /\ date_str = <<"0","3","/","0","4","/","2","0","2","5">>
    /\ ret = <<"2","0","2","5","-","0","3","-","0","4">>

\* four digits, a separator, two digits, a separator, two digits
IsYmdString(s) == s # None /\ Len(s) = 10 /\ YmdAt(s, 1)

\* C8: for a string of four digits, "-" or "/", two digits, "-" or "/", two
\* digits, the result is the same year, month and day digits joined by "-".
C8_RoundTrip ==
    (ParseDone /\ IsYmdString(date_str))
    => ret = SubSeq(date_str, 1, 4) \o <<"-">> \o SubSeq(date_str, 6, 7)
                 \o <<"-">> \o SubSeq(date_str, 9, 10)

\* C9: parse_date_to_iso ends in a date or in None; it gives None exactly
\* when the input is None or empty, or matches no template and contains
\* neither a year-month-day triple nor four consecutive digits.
C9_FailsExactlyWhenNothingMatches ==
    ParseDone =>
        /\ ret = None \/ IsDateShaped(ret)
        /\ ret = None <=>
              \/ ~Truthy(date_str)
              \/ /\ ~TemplateMatches(date_str)
                 /\ ~HasYmdTriple(date_str)
                 /\ ~HasFourDigits(date_str)

C9_Witness ==
    /\ ParseDone
    /\ date_str = <<"n","o"," ","d","a","t","e"," ","i","n","f","o">>
    /\ ret = None

\* C10: a record with an error field has no title, no author and no date.
C10_ErrorExcludesContent ==
    (ExtractDone /\ "error" \in DOMAIN ret)
    => ret.og_title = None /\ ret.author = None /\ ret.article_date = None

C10_Witness ==
    /\ ExtractDone
    /\ "error" \in DOMAIN ret
    /\ response.raises = ""
    /\ response.soup.author_name = Tag(<<"A">>)
    /\ response.soup.published_time.found

=============================================================================
